---- MODULE Spec2Model ----
(***************************************************************************)
(* GradientRampCache of vello_hybrid (src/gradient_cache.rs): the packed   *)
(* gradient look-up tables, the key -> CachedRamp map, the change flag and *)
(* the frame epoch, with the operations get_or_create_ramp, maintain,      *)
(* has_changed, mark_synced, take_luts and restore_luts.                   *)
(***************************************************************************)
EXTENDS Integers, Sequences, FiniteSets, TLC

\* ---------------------------------------------------------------- bounds
NumKeys == 3        \* distinct gradient cache keys the renderer may present
MaxWidth == 1       \* largest ramp width, in texels, the generator reports
MaxEpoch == 2       \* maintain is not called once the epoch reaches this

\* ------------------------------------------------------ program constants
BYTES_PER_TEXEL == 4

Keys == 1..NumKeys

VARIABLES
    cache,        \* self.cache: live key -> [width, lut_start, last_used]
    luts,         \* self.luts: the packed bytes
    has_changed,  \* self.has_changed
    epoch,        \* self.epoch
    taken,        \* the buffer the caller holds between take_luts and restore_luts ({} if none)
    panicked,     \* a slice index went out of range and the thread panicked
    widths,       \* the generator: key -> width in texels of its ramp
    last,         \* history: the call that produced this state
    frame,        \* history: key -> the pairs its lookups returned since the last maintain
    synced,       \* history: content of the buffer at the last mark_synced
    nmaintain,    \* history: number of maintain calls made
    luts_texels   \* self.luts.len() / 4 where only the length of the buffer is kept

vars == <<cache, luts, has_changed, epoch, taken, panicked, widths, last,
          frame, synced, nmaintain, luts_texels>>

\* ------------------------------------------------------------ the generator
\* Byte i (1-based) of the ramp of key k: distinct per key and per position.
RampByte(k, i) == (k * 32 + i) % 256

\* generate_gradient_lut_impl: the bytes appended for key k, width w texels.
GenBytes(k, w) == [i \in 1..(w * BYTES_PER_TEXEL) |-> RampByte(k, i)]

\* ------------------------------------------------------------- conversions
\* `len as u32`: the value modulo 2^32 (2^32 written as 65536 * 65536 and
\* only multiplied out when the value has bits above the 32nd).
AsU32(n) ==
    LET high == (n \div 65536) \div 65536
    IN IF high = 0 THEN n ELSE n - high * 65536 * 65536

LutStartMut(buf) == AsU32(Len(buf))
\* self.luts.len() as u32 / BYTES_PER_TEXEL
LutStart(buf) == AsU32(Len(buf)) \div BYTES_PER_TEXEL

\* ----------------------------------------------------------------- history
\* The call that produced the state: its name, and for a maintain call that
\* evicted, whether a survivor moved and the flag before the call.
Op(name) ==
    [op |-> name, evicted |-> FALSE, moved |-> FALSE, was_changed |-> FALSE]

Put(f, k, v) == [x \in (DOMAIN f) \cup {k} |-> IF x = k THEN v ELSE f[x]]

\* the caller notes the pair a lookup of k returned
Remember(k, ret) ==
    Put(frame, k, (IF k \in DOMAIN frame THEN frame[k] ELSE {}) \cup {ret})

\* The cache never inspects a key, so renaming keys maps behaviours to
\* behaviours: it is enough to present the keys in order of ramp width.
GradientWidths ==
    {w \in [Keys -> 0..MaxWidth] : \A j, k \in Keys : j < k => w[j] <= w[k]}

Init ==
    /\ cache = << >>
    /\ luts = << >>
    /\ has_changed = FALSE
    /\ epoch = 0
    /\ taken = {}
    /\ panicked = FALSE
    /\ widths \in GradientWidths
    /\ last = Op("new")
    /\ frame = << >>
    /\ synced = << >>
    /\ nmaintain = 0
    /\ luts_texels = 0

\* ------------------------------------------------------- get_or_create_ramp
HitResultMut(ramp) == <<ramp.width, ramp.lut_start>>
\* return (ramp.lut_start, ramp.width)
HitResult(ramp) == <<ramp.lut_start, ramp.width>>

HitMut(k) ==
    /\ k \in DOMAIN cache
    /\ cache' = [cache EXCEPT ![k].last_used = epoch]
    /\ has_changed' = TRUE
    /\ last' = Op("hit")
    /\ frame' = Remember(k, HitResult(cache[k]))
    /\ UNCHANGED <<luts, epoch, taken, panicked, widths, synced, nmaintain>>
\* if let Some(ramp) = self.cache.get_mut(key) { ramp.last_used = self.epoch; return .. }
Hit(k) ==
    /\ k \in DOMAIN cache
    /\ cache' = [cache EXCEPT ![k].last_used = epoch]
    /\ last' = Op("hit")
    /\ frame' = Remember(k, HitResult(cache[k]))
    /\ UNCHANGED <<luts, has_changed, epoch, taken, panicked, widths, synced,
                   nmaintain>>

MissZeroMut(k) ==
    /\ k \notin DOMAIN cache
    /\ LET width == widths[k]
           lut_start == IF width = 0 THEN 0 ELSE LutStart(luts)
       IN /\ luts' = luts \o GenBytes(k, width)
          /\ cache' = Put(cache, k, [width |-> width, lut_start |-> lut_start,
                                     last_used |-> epoch])
          /\ frame' = Remember(k, <<lut_start, width>>)
    /\ has_changed' = TRUE
    /\ last' = Op("miss")
    /\ UNCHANGED <<epoch, taken, panicked, widths, synced, nmaintain>>
MissNoFlag(k) ==
    /\ k \notin DOMAIN cache
    /\ LET lut_start == LutStart(luts)
           width == widths[k]
       IN /\ luts' = luts \o GenBytes(k, width)
          /\ cache' = Put(cache, k, [width |-> width, lut_start |-> lut_start,
                                     last_used |-> epoch])
          /\ frame' = Remember(k, <<lut_start, width>>)
    /\ last' = Op("miss")
    /\ UNCHANGED <<has_changed, epoch, taken, panicked, widths, synced, nmaintain>>
MissMut(k) ==
    /\ k \notin DOMAIN cache
    /\ LET width == widths[k]
           lut_start == LutStart(luts \o GenBytes(k, width))
       IN /\ luts' = luts \o GenBytes(k, width)
          /\ cache' = Put(cache, k, [width |-> width, lut_start |-> lut_start,
                                     last_used |-> epoch])
          /\ frame' = Remember(k, <<lut_start, width>>)
    /\ has_changed' = TRUE
    /\ last' = Op("miss")
    /\ UNCHANGED <<epoch, taken, panicked, widths, synced, nmaintain>>
\* the miss path: generate, append, insert, set the flag
Miss(k) ==
    /\ k \notin DOMAIN cache
    /\ LET lut_start == LutStart(luts)
           width == widths[k]
       IN /\ luts' = luts \o GenBytes(k, width)
          /\ cache' = Put(cache, k, [width |-> width, lut_start |-> lut_start,
                                     last_used |-> epoch])
          /\ frame' = Remember(k, <<lut_start, width>>)
    /\ has_changed' = TRUE
    /\ last' = Op("miss")
    /\ UNCHANGED <<epoch, taken, panicked, widths, synced, nmaintain>>

get_or_create_ramp(k) ==
    /\ ~panicked
    /\ (Hit(k) \/ Miss(k))

\* ------------------------------------------------------------------ maintain
RetainMut(c, e) == {k \in DOMAIN c : c[k].last_used > e}
RetainLoose(c, e) == {k \in DOMAIN c : c[k].last_used + 1 >= e}
RetainAll(c, e) == DOMAIN c
\* self.cache.retain(|_, r| r.last_used >= self.epoch): the keys kept
Retain(c, e) == {k \in DOMAIN c : c[k].last_used >= e}

\* the iteration orders of a hash map over the key set S
Orders(S) ==
    {o \in [1..Cardinality(S) -> S] : \A i, j \in DOMAIN o : i # j => o[i] # o[j]}

CopyStepLenient(ramp, old, new) ==
    LET src_start == ramp.lut_start * BYTES_PER_TEXEL
        src_end == src_start + ramp.width * BYTES_PER_TEXEL
    IN IF src_end <= Len(old)
       THEN [ok |-> TRUE,
             ramp |-> [ramp EXCEPT !.lut_start = LutStart(new)],
             luts |-> new \o SubSeq(old, src_start + 1, src_end)]
       ELSE [ok |-> TRUE,
             ramp |-> [ramp EXCEPT !.lut_start = LutStart(new), !.width = 0],
             luts |-> new]
CopyStepMut(ramp, old, new) ==
    LET dst == LutStart(new)
        src_start == dst * BYTES_PER_TEXEL
        src_end == src_start + ramp.width * BYTES_PER_TEXEL
    IN IF src_end <= Len(old)
       THEN [ok |-> TRUE,
             ramp |-> [ramp EXCEPT !.lut_start = dst],
             luts |-> new \o SubSeq(old, src_start + 1, src_end)]
       ELSE [ok |-> FALSE, ramp |-> ramp, luts |-> new]
\* one iteration of the rebuild loop: slice the old region, rewrite lut_start,
\* append the slice to new_luts; the slice panics when it is out of range
CopyStep(ramp, old, new) ==
    LET src_start == ramp.lut_start * BYTES_PER_TEXEL
        src_end == src_start + ramp.width * BYTES_PER_TEXEL
    IN IF src_end <= Len(old)
       THEN [ok |-> TRUE,
             ramp |-> [ramp EXCEPT !.lut_start = LutStart(new)],
             luts |-> new \o SubSeq(old, src_start + 1, src_end)]
       ELSE [ok |-> FALSE, ramp |-> ramp, luts |-> new]

RECURSIVE Rebuild(_, _, _, _)
\* for (_, ramp) in self.cache.iter_mut() { .. } over the entries in `order`
Rebuild(order, c, old, new) ==
    IF order = << >>
    THEN [ok |-> TRUE, cache |-> c, luts |-> new]
    ELSE LET k == Head(order)
             step == CopyStep(c[k], old, new)
         IN IF ~step.ok
            THEN [ok |-> FALSE, cache |-> c, luts |-> new]
            ELSE Rebuild(Tail(order), [c EXCEPT ![k] = step.ramp], old, step.luts)

FlagAfterMaintainNever(evicted, old_luts, new_luts, flag) == flag
FlagAfterMaintainAlways(evicted, old_luts, new_luts, flag) == TRUE
FlagAfterMaintainIfShrunk(evicted, old_luts, new_luts, flag) ==
    IF Len(new_luts) < Len(old_luts) THEN TRUE ELSE flag
\* self.has_changed = true inside `if self.cache.len() < len_before`
FlagAfterMaintain(evicted, old_luts, new_luts, flag) ==
    IF evicted THEN TRUE ELSE flag

ShouldRebuildMut(len_after, len_before) == len_after <= len_before
\* if self.cache.len() < len_before
ShouldRebuild(len_after, len_before) == len_after < len_before

EpochAfterMaintainMut(e, evicted) == IF evicted THEN e + 1 ELSE e
\* self.epoch += 1 after the if
EpochAfterMaintain(e, evicted) == e + 1

maintain ==
    /\ ~panicked
    /\ epoch < MaxEpoch
    /\ LET kept == Retain(cache, epoch)
           retained == [k \in kept |-> cache[k]]
           evicted == ShouldRebuild(Cardinality(kept), Cardinality(DOMAIN cache))
       IN IF ~evicted
          THEN /\ cache' = retained
               /\ luts' = luts
               /\ has_changed' = FlagAfterMaintain(FALSE, luts, luts, has_changed)
               /\ epoch' = EpochAfterMaintain(epoch, FALSE)
               /\ panicked' = FALSE
               /\ last' = Op("maintain")
          ELSE \E order \in Orders(kept) :
                 LET r == Rebuild(order, retained, luts, << >>)
                 IN IF r.ok
                    THEN /\ cache' = r.cache
                         /\ luts' = r.luts
                         /\ has_changed' = FlagAfterMaintain(TRUE, luts, r.luts, has_changed)
                         /\ epoch' = EpochAfterMaintain(epoch, TRUE)
                         /\ panicked' = FALSE
                         /\ last' = [Op("maintain") EXCEPT
                                     !.evicted = TRUE,
                                     !.was_changed = has_changed,
                                     !.moved = \E k \in kept :
                                         r.cache[k].lut_start # cache[k].lut_start]
                    ELSE /\ panicked' = TRUE
                         /\ last' = [Op("maintain") EXCEPT !.evicted = TRUE]
                         /\ UNCHANGED <<cache, luts, has_changed, epoch>>
    /\ frame' = << >>
    /\ nmaintain' = nmaintain + 1
    /\ UNCHANGED <<taken, widths, synced>>

\* ------------------------------------------------------------- observers
luts_size == Len(luts)
is_empty == Len(luts) = 0

\* the content the consumer sees: the buffer it holds, else the cache's
Content == IF taken = {} THEN luts ELSE CHOOSE b \in taken : TRUE

\* self.has_changed = false
mark_synced ==
    /\ ~panicked
    /\ has_changed' = FALSE
    /\ last' = Op("mark_synced")
    /\ UNCHANGED <<cache, luts, epoch, taken, panicked, widths, frame, nmaintain>>

take_lutsMut ==
    /\ ~panicked
    /\ taken' = {luts}
    /\ last' = Op("take_luts")
    /\ UNCHANGED <<cache, luts, has_changed, epoch, panicked, widths, frame,
                   synced, nmaintain>>
\* core::mem::take(&mut self.luts)
take_luts ==
    /\ ~panicked
    /\ taken' = {luts}
    /\ luts' = << >>
    /\ last' = Op("take_luts")
    /\ UNCHANGED <<cache, has_changed, epoch, panicked, widths, frame, synced,
                   nmaintain>>

\* self.luts = luts
restore_luts(b) ==
    /\ ~panicked
    /\ luts' = b
    /\ taken' = {}
    /\ last' = Op("restore_luts")
    /\ UNCHANGED <<cache, has_changed, epoch, panicked, widths, frame, synced,
                   nmaintain>>

\* --------------------------------------------- the consumer, obeying §4.4
Lookup == \E k \in Keys : taken = {} /\ get_or_create_ramp(k) /\ UNCHANGED luts_texels
EndFrame == taken = {} /\ maintain /\ UNCHANGED luts_texels
Sync == mark_synced /\ UNCHANGED <<synced, luts_texels>>
Take == taken = {} /\ take_luts /\ UNCHANGED luts_texels
Restore == \E b \in taken : restore_luts(b) /\ UNCHANGED luts_texels

Next == Lookup \/ EndFrame \/ Sync \/ Take \/ Restore

Spec == Init /\ [][Next]_vars

\* ------------- the consumer that remembers what it saw at each mark_synced
SyncObserved == mark_synced /\ synced' = Content /\ UNCHANGED luts_texels

NextSync == Lookup \/ EndFrame \/ SyncObserved

SpecSync == Init /\ [][NextSync]_vars

\* ------- the consumer that keeps calling while it holds the buffer (§7 misuse):
\* it takes the buffer and, without restoring it, goes on with the lookups of
\* the frame and the maintain call that closes it
MisuseLookup ==
    \E k \in Keys :
       /\ taken # {} /\ last.op # "maintain"
       /\ get_or_create_ramp(k)
       /\ UNCHANGED luts_texels
MisuseEndFrame ==
    taken # {} /\ last.op # "maintain" /\ maintain /\ UNCHANGED luts_texels

NextMisuse == Lookup \/ EndFrame \/ Take \/ MisuseLookup \/ MisuseEndFrame

SpecMisuse == Init /\ [][NextMisuse]_vars

\* ---- the cache with buffers of up to 2^33 bytes: only the length is kept
\* The number of texels whose bytes a u32 can count: 2^32 / BYTES_PER_TEXEL,
\* written as 2^16 * (2^16 / BYTES_PER_TEXEL) to stay within TLC's integers.
TexelsPerU32 == 65536 * (65536 \div BYTES_PER_TEXEL)

\* `self.luts.len() as u32 / BYTES_PER_TEXEL` for a buffer of t texels, that is
\* of 4 * t bytes: ((4 * t) mod 2^32) / 4 = t mod 2^30.
LutStartOfTexels(t) == t % TexelsPerU32

\* Ramp widths, in texels, such that NumKeys - 1 of the widest ramps just
\* exceed the 2^32 bytes a u32 can count; each stands for the ramps of as many
\* gradients as add up to it.
WideUnit == (TexelsPerU32 \div ((NumKeys - 1) * MaxWidth)) + 1

WideWidths ==
    {w \in [Keys -> {n * WideUnit : n \in 0..MaxWidth}] :
        \A j, k \in Keys : j < k => w[j] <= w[k]}

InitWide ==
    /\ cache = << >>
    /\ luts = << >>
    /\ has_changed = FALSE
    /\ epoch = 0
    /\ taken = {}
    /\ panicked = FALSE
    /\ widths \in WideWidths
    /\ last = Op("new")
    /\ frame = << >>
    /\ synced = << >>
    /\ nmaintain = 0
    /\ luts_texels = 0

WideHit(k) == Hit(k) /\ UNCHANGED luts_texels

\* the miss branch of get_or_create_ramp; width < 2^30, so `as u32` keeps it
WideMiss(k) ==
    /\ k \notin DOMAIN cache
    /\ LET lut_start == LutStartOfTexels(luts_texels)
           width == widths[k]
       IN /\ luts_texels' = luts_texels + width
          /\ cache' = Put(cache, k, [width |-> width, lut_start |-> lut_start,
                                     last_used |-> epoch])
          /\ frame' = Remember(k, <<lut_start, width>>)
    /\ has_changed' = TRUE
    /\ last' = Op("miss")
    /\ UNCHANGED <<luts, epoch, taken, panicked, widths, synced, nmaintain>>

RECURSIVE WideRebuild(_, _, _, _)
\* the rebuild loop on lengths: lut_start < 2^30 and width < 2^30, so the u32
\* products lut_start * 4 and width * 4 do not overflow
WideRebuild(order, c, old, new) ==
    IF order = << >>
    THEN [ok |-> TRUE, cache |-> c, texels |-> new]
    ELSE LET k == Head(order)
             src_start == c[k].lut_start
             src_end == src_start + c[k].width
         IN IF src_end > old
            THEN [ok |-> FALSE, cache |-> c, texels |-> new]
            ELSE WideRebuild(Tail(order),
                             [c EXCEPT ![k].lut_start = LutStartOfTexels(new)],
                             old, new + c[k].width)

WideMaintain ==
    /\ ~panicked
    /\ epoch < MaxEpoch
    /\ LET kept == Retain(cache, epoch)
           retained == [k \in kept |-> cache[k]]
           evicted == ShouldRebuild(Cardinality(kept), Cardinality(DOMAIN cache))
       IN IF ~evicted
          THEN /\ cache' = retained
               /\ luts_texels' = luts_texels
               /\ has_changed' = FlagAfterMaintain(FALSE, luts, luts, has_changed)
               /\ epoch' = EpochAfterMaintain(epoch, FALSE)
               /\ panicked' = FALSE
               /\ last' = Op("maintain")
          ELSE \E order \in Orders(kept) :
                 LET r == WideRebuild(order, retained, luts_texels, 0)
                 IN IF r.ok
                    THEN /\ cache' = r.cache
                         /\ luts_texels' = r.texels
                         /\ has_changed' = FlagAfterMaintain(TRUE, luts, luts, has_changed)
                         /\ epoch' = EpochAfterMaintain(epoch, TRUE)
                         /\ panicked' = FALSE
                         /\ last' = [Op("maintain") EXCEPT
                                     !.evicted = TRUE,
                                     !.was_changed = has_changed,
                                     !.moved = \E k \in kept :
                                         r.cache[k].lut_start # cache[k].lut_start]
                    ELSE /\ panicked' = TRUE
                         /\ last' = [Op("maintain") EXCEPT !.evicted = TRUE]
                         /\ UNCHANGED <<cache, luts_texels, has_changed, epoch>>
    /\ frame' = << >>
    /\ nmaintain' = nmaintain + 1
    /\ UNCHANGED <<luts, taken, widths, synced>>

WideLookup == \E k \in Keys : ~panicked /\ (WideHit(k) \/ WideMiss(k))

NextWide == WideLookup \/ WideMaintain

SpecWide == InitWide /\ [][NextWide]_vars

\* ================================================================ properties
Live == DOMAIN cache

\* the byte indices (0-based) of a ramp's region
RegionOf(r) ==
    (r.lut_start * BYTES_PER_TEXEL)..((r.lut_start + r.width) * BYTES_PER_TEXEL - 1)

\* the bytes of a ramp's region in buf
BytesOf(buf, r) ==
    [i \in 1..(r.width * BYTES_PER_TEXEL) |-> buf[r.lut_start * BYTES_PER_TEXEL + i]]

InBuffer(buf, r) == (r.lut_start + r.width) * BYTES_PER_TEXEL <= Len(buf)

RECURSIVE SumWidth(_, _)
SumWidth(c, S) ==
    IF S = {} THEN 0
    ELSE LET k == CHOOSE x \in S : TRUE IN c[k].width + SumWidth(c, S \ {k})

\* a maintain call that ran to completion
Maintained == nmaintain' # nmaintain /\ maintain /\ ~panicked'

\* the pairs the lookups of k returned since the last maintain
Returned(f, k) == IF k \in DOMAIN f THEN f[k] ELSE {}

\* C1: right after a maintain call the live keys are exactly the keys looked
\* up (hit or miss) since the previous maintain call (or since construction).
C1_MaintainKeepsLookedUp ==
    [][Maintained => DOMAIN cache' = DOMAIN frame]_vars

C1_Witness ==
    /\ last.op = "maintain" /\ last.evicted
    /\ Live # {}
    /\ epoch >= 2

\* C2: whenever the cache holds its buffer, the byte regions of the live
\* entries are pairwise disjoint, cover [0, buffer length) without a gap, and
\* their sizes add up to the buffer length.
C2_RegionsPartitionBuffer ==
    (taken = {} /\ ~panicked) =>
        /\ \A k1, k2 \in Live :
              k1 # k2 => RegionOf(cache[k1]) \cap RegionOf(cache[k2]) = {}
        /\ UNION {RegionOf(cache[k]) : k \in Live} = 0..(Len(luts) - 1)
        /\ SumWidth(cache, Live) * BYTES_PER_TEXEL = Len(luts)

C2_Witness ==
    /\ last.op = "restore_luts"
    /\ epoch >= 2
    /\ Cardinality({k \in Live : cache[k].width > 0}) >= 2
    /\ \E k \in Live : cache[k].lut_start > 0 /\ cache[k].last_used < epoch

\* C3: a maintain call that evicts keeps every survivor's width and moves its
\* bytes unchanged to its new region, for every iteration order.
C3_CompactionPreservesBytes ==
    [][(Maintained /\ DOMAIN cache' # DOMAIN cache) =>
          \A k \in DOMAIN cache' :
              /\ cache'[k].width = cache[k].width
              /\ InBuffer(luts', cache'[k])
              /\ InBuffer(luts, cache[k])
              /\ BytesOf(luts', cache'[k]) = BytesOf(luts, cache[k])]_vars

C3_Witness ==
    /\ last.op = "maintain" /\ last.evicted /\ last.moved
    /\ Cardinality({k \in Live : cache[k].width > 0}) >= 2

\* C4 as stated: has_changed is true exactly when the content differs from
\* the content at the last mark_synced.
C4_FlagIffContentDiffers == has_changed <=> (Content # synced)

\* C4 as amended: has_changed is true whenever the content differs from the
\* content at the last mark_synced (it may also be true when they are equal).
C4_ContentDiffersImpliesFlag == (Content # synced) => has_changed

C4_Witness ==
    /\ last.op = "maintain" /\ last.evicted /\ ~last.was_changed
    /\ synced # << >>
    /\ Content # synced
    /\ has_changed

\* C5: a miss returns (buffer length in texels before the call, generator
\* width), appends width*4 bytes and nothing else, adds the entry with
\* last_used = epoch, leaves the other entries alone and sets has_changed;
\* so the start returned is the sum of the widths of the entries present.
C5_MissAppends ==
    [][\A k \in Keys : (get_or_create_ramp(k) /\ k \notin DOMAIN cache) =>
          LET texels == Len(luts) \div BYTES_PER_TEXEL
          IN /\ Returned(frame', k) = Returned(frame, k) \cup {<<texels, widths[k]>>}
             /\ Len(luts') = Len(luts) + widths[k] * BYTES_PER_TEXEL
             /\ SubSeq(luts', 1, Len(luts)) = luts
             /\ DOMAIN cache' = DOMAIN cache \cup {k}
             /\ \A j \in DOMAIN cache : cache'[j] = cache[j]
             /\ cache'[k] = [width |-> widths[k], lut_start |-> texels,
                             last_used |-> epoch]
             /\ has_changed'
             /\ texels = SumWidth(cache, DOMAIN cache)]_vars

C5_Witness ==
    /\ last.op = "miss"
    /\ \E k \in DOMAIN frame : \E p \in frame[k] :
          /\ p[1] > 0 /\ p[2] > 0
          /\ Len(luts) = (p[1] + p[2]) * BYTES_PER_TEXEL
          /\ cache[k].lut_start = p[1]

\* C6: a hit returns the stored (lut_start, width) and changes only that
\* entry's last_used, which becomes the current epoch.
C6_HitOnlyTouchesLastUsed ==
    [][\A k \in Keys : (get_or_create_ramp(k) /\ k \in DOMAIN cache) =>
          /\ Returned(frame', k) =
                Returned(frame, k) \cup {<<cache[k].lut_start, cache[k].width>>}
          /\ luts' = luts
          /\ has_changed' = has_changed
          /\ epoch' = epoch
          /\ taken' = taken
          /\ DOMAIN cache' = DOMAIN cache
          /\ \A j \in DOMAIN cache : j # k => cache'[j] = cache[j]
          /\ cache'[k] = [cache[k] EXCEPT !.last_used = epoch]]_vars

C6_Witness ==
    /\ last.op = "hit"
    /\ epoch >= 1
    /\ ~has_changed
    /\ \E k \in DOMAIN frame : \E p \in frame[k] : p[1] > 0 /\ p[2] > 0

\* C7: all the lookups of a key between two maintain calls return the same
\* pair.
C7_SameFrameSamePair ==
    \A k \in DOMAIN frame : Cardinality(frame[k]) = 1

C7_Witness ==
    /\ last.op = "hit"
    /\ epoch = 0
    /\ Cardinality(DOMAIN frame) >= 2
    /\ \A k \in DOMAIN frame : \E p \in frame[k] : p[2] > 0

\* C8: a maintain call with nothing to remove changes only the epoch.
C8_NoEvictionOnlyEpoch ==
    [][(Maintained /\ \A k \in DOMAIN cache : cache[k].last_used = epoch) =>
          /\ luts' = luts
          /\ cache' = cache
          /\ has_changed' = has_changed
          /\ epoch' = epoch + 1]_vars

C8_Witness ==
    /\ last.op = "maintain" /\ ~last.evicted
    /\ Live # {}
    /\ luts # << >>
    /\ ~has_changed

\* C9: a maintain call that removes an entry leaves has_changed true.
C9_EvictionSetsFlag ==
    [][(Maintained /\ DOMAIN cache' # DOMAIN cache) => has_changed']_vars

C9_Witness ==
    /\ last.op = "maintain" /\ last.evicted /\ ~last.was_changed
    /\ Live = {}
    /\ luts = << >>
    /\ has_changed

\* C10: the epoch equals the number of maintain calls made.
C10_EpochCountsMaintains == ~panicked => epoch = nmaintain

C10_Witness ==
    /\ last.op = "restore_luts"
    /\ epoch = MaxEpoch
    /\ Live # {}

\* the (lut_start, width) pair of an entry
PairOf(r) == <<r.lut_start, r.width>>

RECURSIVE SumGenWidth(_)
\* the generator widths of the keys in S, added up
SumGenWidth(S) ==
    IF S = {} THEN 0
    ELSE LET k == CHOOSE x \in S : TRUE IN widths[k] + SumGenWidth(S \ {k})

\* C11: every live entry's last_used is at most the epoch, and right after a
\* maintain call that ran at epoch e every survivor has last_used = e.
C11_LastUsedBounded ==
    ~panicked =>
        /\ \A k \in Live : cache[k].last_used <= epoch
        /\ last.op = "maintain" => \A k \in Live : cache[k].last_used = epoch - 1

C11_Witness ==
    /\ last.op = "maintain" /\ last.evicted
    /\ epoch = MaxEpoch
    /\ Cardinality(Live) >= 2

\* C12: take_luts hands out the current buffer and leaves an empty one, with
\* entries, epoch and flag unchanged; restore_luts of that buffer directly
\* afterwards puts the buffer back and changes nothing else.
C12_TakeThenRestore ==
    [][/\ take_luts =>
             /\ taken' = {luts}
             /\ luts' = << >>
             /\ cache' = cache /\ epoch' = epoch /\ has_changed' = has_changed
       /\ (last.op = "take_luts" /\ \E b \in taken : restore_luts(b)) =>
             /\ luts' \in taken
             /\ Len(luts') = SumWidth(cache, Live) * BYTES_PER_TEXEL
             /\ taken' = {}
             /\ cache' = cache /\ epoch' = epoch /\ has_changed' = has_changed]_vars

C12_Witness ==
    /\ last.op = "restore_luts"
    /\ Cardinality({k \in Live : cache[k].width > 0}) >= 2
    /\ Len(luts) >= 2 * BYTES_PER_TEXEL
    /\ has_changed

\* C13: while has_changed is false, a lookup of a live key and a maintain call
\* closing a frame in which exactly the live keys were looked up leave
\* has_changed false and the buffer and every key's pair unchanged.
C13_StaticSceneStaysClean ==
    [][(/\ ~has_changed
        /\ \/ \E k \in DOMAIN cache : get_or_create_ramp(k)
           \/ Maintained /\ DOMAIN frame = DOMAIN cache) =>
          /\ ~has_changed'
          /\ luts' = luts
          /\ DOMAIN cache' = DOMAIN cache
          /\ \A k \in DOMAIN cache : PairOf(cache'[k]) = PairOf(cache[k])]_vars

C13_Witness ==
    /\ last.op = "maintain" /\ ~last.evicted
    /\ epoch = MaxEpoch
    /\ ~has_changed
    /\ Cardinality({k \in Live : cache[k].width > 0}) >= 2

\* C14: right after a maintain call the buffer holds exactly the ramps of the
\* keys looked up in the frame it closes: its length is 4 times the sum of
\* their widths, and nothing is left when no key was looked up.
C14_NoAccumulation ==
    [][Maintained =>
          /\ Len(luts') = BYTES_PER_TEXEL * SumGenWidth(DOMAIN frame)
          /\ DOMAIN frame = {} => (cache' = << >> /\ luts' = << >>)]_vars

C14_Witness ==
    /\ last.op = "maintain" /\ last.evicted
    /\ epoch = MaxEpoch
    /\ Live = {}
    /\ luts = << >>
    /\ last.was_changed

\* C15: under the caller contract no call panics, and the region of every
\* live entry, which maintain would slice, lies inside the buffer.
C15_ContractNeverPanics ==
    /\ ~panicked
    /\ taken = {} => \A k \in Live : InBuffer(luts, cache[k])

C15_Witness ==
    /\ last.op = "maintain" /\ last.evicted /\ last.moved
    /\ ~panicked
    /\ \E k \in Live : cache[k].width > 0

\* C16 (as stated): a get_or_create_ramp or maintain call issued between
\* take_luts and restore_luts always runs to completion, without a panic.
C16_MisuseNeverPanics == taken # {} => ~panicked

\* C16 (amended): between take_luts and restore_luts every get_or_create_ramp
\* call completes, and a maintain call panics exactly when it evicts an entry
\* while the region of a surviving entry reaches beyond the current buffer.
C16_MisusePanicsOnlyInRebuild ==
    [][taken # {} =>
          /\ \A k \in Keys : get_or_create_ramp(k) => ~panicked'
          /\ (nmaintain' # nmaintain /\ maintain) =>
                LET kept == Retain(cache, epoch)
                IN panicked' <=>
                      /\ ShouldRebuild(Cardinality(kept), Cardinality(DOMAIN cache))
                      /\ \E k \in kept : ~InBuffer(luts, cache[k])]_vars

C16_Witness ==
    /\ taken # {}
    /\ last.op = "maintain" /\ last.evicted
    /\ panicked
    /\ \E k \in Live : cache[k].last_used = epoch /\ ~InBuffer(luts, cache[k])

\* C17: per key the only transitions are Absent -> Live(e) by a miss at epoch
\* e, Live -> Live(e) by a hit at epoch e, and Live(e) -> Absent by a maintain
\* call at an epoch greater than e; maintain keeps every entry stamped with
\* the current epoch, and mark_synced, take_luts and restore_luts change no
\* entry.
C17_EntryTransitions ==
    [][/\ \A k \in Keys :
            /\ (k \notin DOMAIN cache /\ k \in DOMAIN cache') =>
                  /\ get_or_create_ramp(k)
                  /\ last'.op = "miss"
                  /\ cache'[k].last_used = epoch
            /\ (k \in DOMAIN cache /\ k \in DOMAIN cache'
                  /\ cache'[k].last_used # cache[k].last_used) =>
                  /\ get_or_create_ramp(k)
                  /\ last'.op = "hit"
                  /\ cache'[k].last_used = epoch
            /\ (k \in DOMAIN cache /\ k \notin DOMAIN cache') =>
                  /\ Maintained
                  /\ cache[k].last_used < epoch
            /\ (Maintained /\ k \in DOMAIN cache /\ cache[k].last_used = epoch) =>
                  k \in DOMAIN cache'
            /\ (get_or_create_ramp(k) /\ k \in DOMAIN cache) =>
                  k \in DOMAIN cache' /\ cache'[k].last_used = epoch
       /\ (mark_synced \/ take_luts \/ \E b \in taken : restore_luts(b)) =>
             cache' = cache]_vars

C17_Witness ==
    /\ last.op = "maintain" /\ last.evicted
    /\ epoch = MaxEpoch
    /\ Cardinality(Live) = 1
    /\ \A k \in Live : cache[k].last_used = epoch - 1 /\ cache[k].width > 0

\* C18: a miss of width 0 records an entry of width 0 at the current buffer
\* length in texels and leaves the buffer as it is, so the next miss gets the
\* same lut_start; hits on the key return (lut_start, 0); and a compaction with
\* zero-width entries among the survivors or the evicted leaves the non-empty
\* regions disjoint, gap-free and holding their generated bytes.
C18_ZeroWidthIsHarmless ==
    [][/\ \A k \in Keys :
            /\ (get_or_create_ramp(k) /\ k \notin DOMAIN cache /\ widths[k] = 0) =>
                  /\ luts' = luts
                  /\ cache'[k] = [width |-> 0,
                                  lut_start |-> Len(luts) \div BYTES_PER_TEXEL,
                                  last_used |-> epoch]
                  /\ Returned(frame', k) =
                        Returned(frame, k) \cup {<<Len(luts) \div BYTES_PER_TEXEL, 0>>}
            /\ (get_or_create_ramp(k) /\ k \notin DOMAIN cache) =>
                  /\ \A z \in DOMAIN cache :
                        (cache[z].width = 0
                           /\ cache[z].lut_start * BYTES_PER_TEXEL = Len(luts)) =>
                              cache'[k].lut_start = cache[z].lut_start
                  /\ \A i \in 1..(widths[k] * BYTES_PER_TEXEL) :
                        luts'[Len(luts) + i] = RampByte(k, i)
            /\ (get_or_create_ramp(k) /\ k \in DOMAIN cache /\ cache[k].width = 0) =>
                  Returned(frame', k) =
                     Returned(frame, k) \cup {<<cache[k].lut_start, 0>>}
       /\ (Maintained /\ DOMAIN cache' # DOMAIN cache
             /\ \E z \in DOMAIN cache : cache[z].width = 0) =>
             LET full == {k \in DOMAIN cache' : cache'[k].width > 0}
             IN /\ \A k \in full :
                      /\ cache'[k].width = widths[k]
                      /\ InBuffer(luts', cache'[k])
                      /\ \A i \in 1..(widths[k] * BYTES_PER_TEXEL) :
                            luts'[cache'[k].lut_start * BYTES_PER_TEXEL + i]
                               = RampByte(k, i)
                /\ \A j, k \in full :
                      j # k => RegionOf(cache'[j]) \cap RegionOf(cache'[k]) = {}
                /\ UNION {RegionOf(cache'[k]) : k \in full} = 0..(Len(luts') - 1)]_vars

C18_Witness ==
    /\ last.op = "maintain" /\ last.evicted /\ last.moved
    /\ \E z, k \in Live :
          /\ cache[z].width = 0
          /\ cache[k].width > 0
          /\ cache[z].lut_start = cache[k].lut_start + cache[k].width

\* C19: for every key looked up during a frame, the pair the lookup returned
\* equals the entry's (lut_start, width) after the maintain call that closes
\* the frame.
C19_ReturnedPairStaysValid ==
    [][Maintained =>
          \A k \in DOMAIN frame :
             k \in DOMAIN cache' /\ frame[k] = {PairOf(cache'[k])}]_vars

\* C20: whenever the buffer's length or bytes differ from what they were at
\* the last mark_synced call (from the empty buffer if there was none),
\* has_changed is true.
C20_NoUploadMissed ==
    ~has_changed =>
        /\ Len(Content) = Len(synced)
        /\ \A i \in 1..Len(synced) : Content[i] = synced[i]

C20_Witness ==
    /\ last.op = "miss"
    /\ synced # << >>
    /\ Len(luts) > Len(synced)
    /\ has_changed

\* C21: the conversions of the buffer length to u32 lose nothing: at every miss
\* the length in bytes is below 2^32 and the lut_start recorded is the true
\* length divided by 4, however many misses the frame has seen; and after a
\* compaction the recorded regions tile the rebuilt buffer, whose length is
\* below 2^32.
C21_ConversionsLossless ==
    [][/\ \A k \in Keys :
            (~panicked /\ WideMiss(k)) =>
               /\ luts_texels < TexelsPerU32
               /\ cache'[k].lut_start = luts_texels
       /\ (nmaintain' # nmaintain /\ WideMaintain /\ ~panicked'
             /\ DOMAIN cache' # DOMAIN cache) =>
             /\ luts_texels' < TexelsPerU32
             /\ luts_texels' = SumWidth(cache', DOMAIN cache')
             /\ \A k \in DOMAIN cache' :
                   cache'[k].lut_start + cache'[k].width <= luts_texels'
             /\ \A j, k \in DOMAIN cache' :
                   (j # k /\ cache'[j].width > 0 /\ cache'[k].width > 0) =>
                      \/ cache'[j].lut_start + cache'[j].width <= cache'[k].lut_start
                      \/ cache'[k].lut_start + cache'[k].width <= cache'[j].lut_start]_vars

====
